---- MODULE Spec2Model ----
(***************************************************************************)
(* Model of termdialog.Dialog (package termdialog): a dialog that embeds a *)
(* terminal application.  The Dialog's fields, its Update handlers,        *)
(* Position, Cursor and Close are translated from the source; the embedded *)
(* terminal (internal/terminal) is modelled by its capability contract.    *)
(***************************************************************************)
EXTENDS Integers, Sequences, FiniteSets, TLC

\* ---------------------------------------------------------------- constants
headerHeight == 2
fullscreenWidthBreakpoint == 120
minInnerWidth == 40
minInnerHeight == 10
minTermHeight == 5
borderCells == 2
capWidthMargin == 6
capHeightMargin == 4
occupancyPercent == 85

\* ------------------------------------------------------------------- bounds
\* Cap of the ghost counter of successful Start calls.
MaxStarts == 2
\* Cap of the ghost counter of Close() calls.
MaxCloses == 2

\* Host window sizes delivered in tea.WindowSizeMsg.
HostSizes ==
    {<<0, 0>>, <<43, 13>>, <<119, 60>>, <<120, 0>>, <<120, 15>>,
     <<120, 16>>, <<200, 60>>}
\* Screen coordinates of mouse events.
MouseCoords == {0, 20}
MouseVariants == {"click", "release", "wheel", "motion"}
\* Key events: Text is non-empty for printable keys, empty otherwise.
KeyTexts == {"", "a"}
PasteContents == {"", "pasted"}
\* Cursor positions reported by the terminal (-1: hidden / unavailable).
TermCursorCoords == {-1, 7}
\* Characters strings.TrimSpace removes.
Whitespace == {" ", "\n", "\t"}
\* Contents of the edited file, as sequences of characters.
FileContents ==
    {<<>>, <<"a">>, <<" ", "\n">>, <<" ", "a", " ", "b", "\n">>,
     <<"\t", "a">>}

VARIABLES
    wWidth, wHeight,      \* Dialog.wWidth, Dialog.wHeight
    width, height,        \* Dialog.width, Dialog.height
    fullscreen,           \* Dialog.fullscreen
    hasOnClose,           \* Dialog.onClose != nil
    termStarted,          \* terminal.Started()
    termClosed,           \* terminal.Closed()
    termSize,             \* grid size of the terminal, <<cols, rows>>
    lastEvent,            \* the operation processed last
    calls,                \* terminal calls made by the last operation
    cmds,                 \* commands returned by the last operation
    cursor,               \* result of the last Cursor() call, <<>> for nil
    startCount,           \* number of successful Start calls
    closeCount,           \* number of Close() calls
    callbackCount,        \* number of onClose invocations
    resized,              \* some window-resize event has been processed
    errReported,          \* some window-resize event reported an error
    repeated,             \* the last operation was a window-resize event
                          \* equal to the one processed just before it
    dialogKind,           \* the builder that made the Dialog
    tempFile,             \* the builder's file: "none" (empty path),
                          \* "present" or "absent"
    fileContent,          \* content of the edited file
    result,               \* the result event the last operation yielded
    phase                 \* delivery of the process exit: "idle",
                          \* "exited", "closing", "closed", "dropped"

vars == <<wWidth, wHeight, width, height, fullscreen, hasOnClose,
          termStarted, termClosed, termSize, lastEvent, calls, cmds, cursor,
          startCount, closeCount, callbackCount, resized, errReported,
          repeated, dialogKind, tempFile, fileContent, result, phase>>

\* Everything but the delivery phase.
dialogVars ==
    <<wWidth, wHeight, width, height, fullscreen, hasOnClose,
      termStarted, termClosed, termSize, lastEvent, calls, cmds, cursor,
      startCount, closeCount, callbackCount, resized, errReported,
      repeated, dialogKind, tempFile, fileContent, result>>

\* ------------------------------------------------------------ Go arithmetic
Max(a, b) == IF a >= b THEN a ELSE b

\* Go integer division truncates toward zero.
Quo(a, b) == IF a >= 0 THEN a \div b ELSE -((-a) \div b)

\* int(float64(n) * 0.85) for n >= 0.  The float64 product of a window size
\* and 0.85 rounds to the exact integer when 85n/100 is one, and lies at
\* least 0.05 from every integer otherwise, so truncation equals the floor
\* of the exact quotient.
Scale85(n) == (n * occupancyPercent) \div 100

\* ----------------------------------------------------- geometry of a resize
\* Variant: the breakpoint compared inclusively.
IsFullscreen_Inclusive(w) == w <= fullscreenWidthBreakpoint

IsFullscreen(w) == w < fullscreenWidthBreakpoint

\* Variant: the 85% size left uncapped.
CapAt_NoCap(scaled, limit) == scaled

CapAt(scaled, limit) == IF scaled > limit THEN limit ELSE scaled

OuterWidth(w) ==
    IF IsFullscreen(w) THEN w ELSE CapAt(Scale85(w), w - capWidthMargin)

OuterHeight(w, h) ==
    IF IsFullscreen(w) THEN h ELSE CapAt(Scale85(h), h - capHeightMargin)

\* Variant: the inner width left unfloored.
InnerWidth_NoFloor(w) == OuterWidth(w) - borderCells

InnerWidth(w) == Max(OuterWidth(w) - borderCells, minInnerWidth)

InnerHeight(w, h) == Max(OuterHeight(w, h) - borderCells, minInnerHeight)

TermHeight(ih) == Max(ih - headerHeight, minTermHeight)

\* ------------------------------------------------------------ event records
Event(type, variant, x, y, text) ==
    [type |-> type, variant |-> variant, x |-> x, y |-> y, text |-> text]

Call(op, x, y, ok, arg) ==
    [op |-> op, x |-> x, y |-> y, ok |-> ok, arg |-> arg]

NoEvent == Event("none", "", 0, 0, "")

\* No result event.
NoResult == [present |-> FALSE, content |-> <<>>, err |-> FALSE]

\* A Config handed to New: the builder, whether OnClose is set, the state of
\* the builder's file and the content of the edited file.
Config(kind, onClose, file, content) ==
    [kind |-> kind, onClose |-> onClose, file |-> file, content |-> content]

\* A Dialog without completion callback, and the editor dialog.
MainConfigs ==
    {Config("plain", FALSE, "none", <<>>),
     Config("editor", TRUE, "present", <<" ", "a", "\n">>)}

\* The dialogs the three builders make.
BuilderConfigs ==
    {Config("editor", TRUE, f, c) :
        f \in {"present", "absent"}, c \in FileContents}
    \cup {Config(k, TRUE, f, <<>>) :
        k \in {"lazygit", "ghdash"}, f \in {"none", "present", "absent"}}

\* --------------------------------------------------------------------- New
New(cfg) ==
    /\ wWidth = 0 /\ wHeight = 0
    /\ width = 0 /\ height = 0
    /\ fullscreen = FALSE
    /\ hasOnClose = cfg.onClose
    /\ dialogKind = cfg.kind
    /\ tempFile = cfg.file
    /\ fileContent = cfg.content
    /\ result = NoResult
    /\ phase = "idle"
    /\ termStarted = FALSE
    /\ termClosed = FALSE
    /\ termSize = <<0, 0>>
    /\ lastEvent = NoEvent
    /\ calls = <<>>
    /\ cmds = <<>>
    /\ cursor = <<>>
    /\ startCount = 0
    /\ closeCount = 0
    /\ callbackCount = 0
    /\ resized = FALSE
    /\ errReported = FALSE
    /\ repeated = FALSE

Init == \E cfg \in MainConfigs : New(cfg)

\* ------------------------------------------------- embedded terminal (§6)
\* Resize(width, height) error: on success the grid takes the new size.
TermResize(size, cols, rows, ok) == IF ok THEN <<cols, rows>> ELSE size

\* Start() error: on success Started() becomes true.
TermStart(started, ok) == started \/ ok

\* Close() error: a successful close leaves the terminal closed; a failed
\* close leaves it closed or as it was.
TermCloseOutcomes(closed, ok) == IF ok THEN {TRUE} ELSE {TRUE, closed}

\* ------------------------------------------------------------ handleResize
\* Variant: the start branch taken whatever Started() says.
ShouldStart_IgnoreStarted(started, iw, th) == iw > 0 /\ th > 0

\* Variant: the start branch abandoned once an error was reported.
ShouldStart_GiveUp(started, iw, th) ==
    ~started /\ iw > 0 /\ th > 0 /\ ~errReported

\* The guard of the start branch.
ShouldStart(started, iw, th) == ~started /\ iw > 0 /\ th > 0

\* Variant: only the refresh command returned after a start.
StartCmds_RefreshOnly == <<"RefreshCmd">>

\* The two commands batched after a successful start.
StartCmds == <<"WaitCmd", "RefreshCmd">>

\* Variant: the error of Resize dropped, Start called regardless.
StartTerminal_IgnoreResizeError(started, iw, th, resizeOK, startOK) ==
    [calls |-> <<Call("Resize", iw, th, resizeOK, ""),
                 Call("Start", 0, 0, startOK, "")>>,
     cmds |-> IF startOK THEN <<"WaitCmd", "RefreshCmd">>
              ELSE <<"ReportError">>,
     started |-> started \/ startOK]

\* The start branch: Resize, then Start, each returning early on error.
StartTerminal(started, iw, th, resizeOK, startOK) ==
    IF ~resizeOK
    THEN [calls |-> <<Call("Resize", iw, th, FALSE, "")>>,
          cmds |-> <<"ReportError">>,
          started |-> started]
    ELSE IF ~startOK
    THEN [calls |-> <<Call("Resize", iw, th, TRUE, ""),
                      Call("Start", 0, 0, FALSE, "")>>,
          cmds |-> <<"ReportError">>,
          started |-> TermStart(started, FALSE)]
    ELSE [calls |-> <<Call("Resize", iw, th, TRUE, ""),
                      Call("Start", 0, 0, TRUE, "")>>,
          cmds |-> StartCmds,
          started |-> TermStart(started, TRUE)]

\* Variant: the refresh command returned again after every resize.
ResizeTerminal_Reschedule(started, iw, th, resizeOK) ==
    [calls |-> <<Call("Resize", iw, th, resizeOK, "")>>,
     cmds |-> IF resizeOK THEN <<"RefreshCmd">> ELSE <<"ReportError">>,
     started |-> started]

\* Variant: the running terminal resized to the inner height, header
\* included.
ResizeTerminal_FullHeight(started, iw, th, resizeOK) ==
    [calls |-> <<Call("Resize", iw, th + headerHeight, resizeOK, "")>>,
     cmds |-> IF resizeOK THEN <<>> ELSE <<"ReportError">>,
     started |-> started]

\* The resize-only branch.
ResizeTerminal(started, iw, th, resizeOK) ==
    [calls |-> <<Call("Resize", iw, th, resizeOK, "")>>,
     cmds |-> IF resizeOK THEN <<>> ELSE <<"ReportError">>,
     started |-> started]

\* Number of successful Start calls in a call sequence.
StartsIn(cs) == Cardinality({i \in DOMAIN cs : cs[i].op = "Start" /\ cs[i].ok})

handleResize(w, h, resizeOK, startOK) ==
    LET iw == InnerWidth(w)
        ih == InnerHeight(w, h)
        th == TermHeight(ih)
        r == IF ShouldStart(termStarted, iw, th)
             THEN StartTerminal(termStarted, iw, th, resizeOK, startOK)
             ELSE ResizeTerminal(termStarted, iw, th, resizeOK)
    IN /\ startCount + StartsIn(r.calls) <= MaxStarts
       /\ wWidth' = w
       /\ wHeight' = h
       /\ fullscreen' = IsFullscreen(w)
       /\ width' = iw
       /\ height' = ih
       /\ termSize' = TermResize(termSize, r.calls[1].x, r.calls[1].y,
                                 r.calls[1].ok)
       /\ termStarted' = r.started
       /\ calls' = r.calls
       /\ cmds' = r.cmds
       /\ cursor' = <<>>
       /\ lastEvent' = Event("resize", "", w, h, "")
       /\ startCount' = startCount + StartsIn(r.calls)
       /\ resized' = TRUE
       /\ errReported' = (errReported \/ r.cmds = <<"ReportError">>)
       /\ repeated' = (lastEvent = Event("resize", "", w, h, ""))
       /\ result' = NoResult
       /\ UNCHANGED <<hasOnClose, termClosed, closeCount, callbackCount,
                      dialogKind, tempFile, fileContent>>

WindowSizeMsg ==
    \E size \in HostSizes, resizeOK \in BOOLEAN, startOK \in BOOLEAN :
        handleResize(size[1], size[2], resizeOK, startOK)

\* Variant: centred on the inner size, the border left out.
Position_NoBorder ==
    IF fullscreen
    THEN <<0, 0>>
    ELSE <<Max(Quo(wHeight - height, 2), 0), Max(Quo(wWidth - width, 2), 0)>>

\* Variant: the coordinates left unclamped.
Position_NoClamp ==
    IF fullscreen
    THEN <<0, 0>>
    ELSE <<Quo(wHeight - (height + 2), 2), Quo(wWidth - (width + 2), 2)>>

\* ---------------------------------------------------------------- Position
Position ==
    IF fullscreen
    THEN <<0, 0>>
    ELSE LET dialogWidth == width + 2
             dialogHeight == height + 2
         IN <<Max(Quo(wHeight - dialogHeight, 2), 0),
              Max(Quo(wWidth - dialogWidth, 2), 0)>>

\* ------------------------------------------------------ the other handlers
Unchanged_Dialog ==
    UNCHANGED <<wWidth, wHeight, width, height, fullscreen, hasOnClose,
                dialogKind>>

Unchanged_Ghosts ==
    /\ UNCHANGED <<startCount, closeCount, callbackCount, resized,
                   errReported, tempFile, fileContent>>
    /\ result' = NoResult
    /\ repeated' = FALSE

\* Variant: the exit event answered with no command.
ExitCmds_None == <<>>

\* The command returned for terminal.ExitMsg.
ExitCmds == <<"CloseDialogMsg">>

ExitMsg ==
    /\ lastEvent' = Event("exit", "", 0, 0, "")
    /\ calls' = <<>>
    /\ cmds' = ExitCmds
    /\ cursor' = <<>>
    /\ Unchanged_Dialog /\ Unchanged_Ghosts
    /\ UNCHANGED <<termStarted, termClosed, termSize>>

OutputMsg ==
    /\ lastEvent' = Event("output", "", 0, 0, "")
    /\ calls' = <<>>
    /\ cmds' = IF termClosed THEN <<>> ELSE <<"RefreshCmd">>
    /\ cursor' = <<>>
    /\ Unchanged_Dialog /\ Unchanged_Ghosts
    /\ UNCHANGED <<termStarted, termClosed, termSize>>

\* Variant: every key forwarded as a raw key event.
handleKey_AlwaysKey(text) ==
    /\ lastEvent' = Event("key", "", 0, 0, text)
    /\ calls' = <<Call("SendKey", 0, 0, TRUE, text)>>
    /\ cmds' = <<>>
    /\ cursor' = <<>>
    /\ Unchanged_Dialog /\ Unchanged_Ghosts
    /\ UNCHANGED <<termStarted, termClosed, termSize>>

handleKey(text) ==
    /\ lastEvent' = Event("key", "", 0, 0, text)
    /\ calls' = IF text # ""
                THEN <<Call("SendText", 0, 0, TRUE, text)>>
                ELSE <<Call("SendKey", 0, 0, TRUE, text)>>
    /\ cmds' = <<>>
    /\ cursor' = <<>>
    /\ Unchanged_Dialog /\ Unchanged_Ghosts
    /\ UNCHANGED <<termStarted, termClosed, termSize>>

KeyPressMsg == \E text \in KeyTexts : handleKey(text)

PasteMsg ==
    \E content \in PasteContents :
        /\ lastEvent' = Event("paste", "", 0, 0, content)
        /\ calls' = <<Call("SendPaste", 0, 0, TRUE, content)>>
        /\ cmds' = <<>>
        /\ cursor' = <<>>
        /\ Unchanged_Dialog /\ Unchanged_Ghosts
        /\ UNCHANGED <<termStarted, termClosed, termSize>>

\* Variant: the header band left out of the adjustment.
adjust_NoHeader(x, y, row, col) == <<x - col - 1, y - row - 1>>

\* The adjust closure of handleMouse: screen point to terminal point.
adjust(x, y, row, col) == <<x - col - 1, y - row - 1 - headerHeight>>

\* Variant: the motion case missing from the type switch.
handleMouse_DropMotion(variant, x, y) ==
    LET p == adjust(x, y, Position[1], Position[2])
    IN /\ lastEvent' = Event("mouse", variant, x, y, "")
       /\ calls' = IF variant = "motion" THEN <<>>
                   ELSE <<Call("SendMouse", p[1], p[2], TRUE, variant)>>
       /\ cmds' = <<>>
       /\ cursor' = <<>>
       /\ Unchanged_Dialog /\ Unchanged_Ghosts
       /\ UNCHANGED <<termStarted, termClosed, termSize>>

handleMouse(variant, x, y) ==
    LET row == Position[1]
        col == Position[2]
        p == adjust(x, y, row, col)
    IN /\ lastEvent' = Event("mouse", variant, x, y, "")
       /\ calls' = <<Call("SendMouse", p[1], p[2], TRUE, variant)>>
       /\ cmds' = <<>>
       /\ cursor' = <<>>
       /\ Unchanged_Dialog /\ Unchanged_Ghosts
       /\ UNCHANGED <<termStarted, termClosed, termSize>>

MouseMsg ==
    \E variant \in MouseVariants, x \in MouseCoords, y \in MouseCoords :
        handleMouse(variant, x, y)

\* The translation of Cursor: terminal point to screen point.
cursorMap(x, y, row, col) == <<x + col + 1, y + row + 1 + headerHeight>>

\* Cursor(), given the position the terminal reports; <<>> stands for nil.
CursorOf(x, y) ==
    IF x < 0 \/ y < 0
    THEN <<>>
    ELSE cursorMap(x, y, Position[1], Position[2])

Cursor ==
    \E x \in TermCursorCoords, y \in TermCursorCoords :
        /\ lastEvent' = Event("cursor", "", x, y, "")
        /\ calls' = <<Call("CursorPosition", x, y, TRUE, "")>>
        /\ cmds' = <<>>
        /\ cursor' = CursorOf(x, y)
        /\ Unchanged_Dialog /\ Unchanged_Ghosts
        /\ UNCHANGED <<termStarted, termClosed, termSize>>

\* ------------------------------------------------------------------- Close
\* strings.TrimSpace on a sequence of characters.
RECURSIVE TrimLeft(_)
TrimLeft(cs) ==
    IF cs = <<>> THEN <<>>
    ELSE IF Head(cs) \in Whitespace THEN TrimLeft(Tail(cs))
    ELSE cs

RECURSIVE TrimRight(_)
TrimRight(cs) ==
    IF cs = <<>> THEN <<>>
    ELSE IF cs[Len(cs)] \in Whitespace
         THEN TrimRight(SubSeq(cs, 1, Len(cs) - 1))
    ELSE cs

TrimSpace(cs) == TrimRight(TrimLeft(cs))

\* What a completion callback does: its calls, the command it returns and the
\* result event that command carries.
Callback(cs, cmd, res) ==
    [invoked |-> TRUE, calls |-> cs, cmds |-> cmd, result |-> res]

NoCallback ==
    [invoked |-> FALSE, calls |-> <<>>, cmds |-> <<>>, result |-> NoResult]

\* Variant: a failed read answered with an empty, error-free result.
EditorOnClose_SwallowError(content, readOK, removeOK) ==
    Callback(<<Call("ReadFile", 0, 0, readOK, ""),
               Call("Remove", 0, 0, removeOK, "")>>,
             <<"EditorResultMsg">>,
             [present |-> TRUE,
              content |-> IF readOK THEN TrimSpace(content) ELSE <<>>,
              err |-> FALSE])

\* OnClose of tuieditor.NewDialog.
EditorOnClose(content, readOK, removeOK) ==
    Callback(<<Call("ReadFile", 0, 0, readOK, ""),
               Call("Remove", 0, 0, removeOK, "")>>,
             <<"EditorResultMsg">>,
             IF ~readOK
             THEN [present |-> TRUE, content |-> <<>>, err |-> TRUE]
             ELSE [present |-> TRUE, content |-> TrimSpace(content),
                   err |-> FALSE])

\* OnClose of lazygit.NewDialog.
LazygitOnClose(file, removeOK) ==
    Callback(IF file # "none"
             THEN <<Call("Remove", 0, 0, removeOK, "")>>
             ELSE <<>>,
             <<>>, NoResult)

\* OnClose of ghdash.NewDialog.
GhdashOnClose(file, removeOK) ==
    Callback(IF file # "none"
             THEN <<Call("Remove", 0, 0, removeOK, "")>>
             ELSE <<>>,
             <<>>, NoResult)

\* d.onClose(), for the builder that made the Dialog.
OnClose(kind, file, content, readOK, removeOK) ==
    IF kind = "editor" THEN EditorOnClose(content, readOK, removeOK)
    ELSE IF kind = "lazygit" THEN LazygitOnClose(file, removeOK)
    ELSE GhdashOnClose(file, removeOK)

\* Variant: a failed terminal close ends Close() early.
AfterTermClose_Abort(closeOK, set, cb) ==
    IF closeOK /\ set THEN cb ELSE NoCallback

\* The rest of Close() after term.Close(), whose error is discarded.
AfterTermClose(closeOK, set, cb) == IF set THEN cb ELSE NoCallback

\* os.ReadFile succeeds only on a file that is there.
ReadOutcomes(file) == IF file = "present" THEN BOOLEAN ELSE {FALSE}

\* os.Remove succeeds only on a file that is there.
RemoveOutcomes(file) == IF file = "present" THEN BOOLEAN ELSE {FALSE}

\* The file after the calls of a callback.
FileAfter(file, cs) ==
    IF \E i \in DOMAIN cs : cs[i].op = "Remove" /\ cs[i].ok
    THEN "absent"
    ELSE file

Close ==
    \E closeOK \in BOOLEAN, readOK \in ReadOutcomes(tempFile),
       removeOK \in RemoveOutcomes(tempFile) :
        LET cb == AfterTermClose(closeOK, hasOnClose,
                      OnClose(dialogKind, tempFile, fileContent, readOK,
                              removeOK))
        IN /\ closeCount < MaxCloses
           /\ lastEvent' = Event("close", "", 0, 0, "")
           /\ calls' = <<Call("Close", 0, 0, closeOK, "")>> \o cb.calls
           /\ termClosed' \in TermCloseOutcomes(termClosed, closeOK)
           /\ cmds' = cb.cmds
           /\ result' = cb.result
           /\ tempFile' = FileAfter(tempFile, cb.calls)
           /\ callbackCount' = IF cb.invoked THEN callbackCount + 1
                               ELSE callbackCount
           /\ closeCount' = closeCount + 1
           /\ cursor' = <<>>
           /\ repeated' = FALSE
           /\ Unchanged_Dialog
           /\ UNCHANGED <<termStarted, termSize, startCount, resized,
                          errReported, fileContent>>

\* ------------------------------------------------------------------ Update
Next ==
    \/ WindowSizeMsg /\ UNCHANGED phase
    \/ ExitMsg /\ UNCHANGED phase
    \/ OutputMsg /\ UNCHANGED phase
    \/ KeyPressMsg /\ UNCHANGED phase
    \/ PasteMsg /\ UNCHANGED phase
    \/ MouseMsg /\ UNCHANGED phase
    \/ Cursor /\ UNCHANGED phase
    \/ Close /\ UNCHANGED phase

Spec == Init /\ [][Next]_vars

\* ------------------------------------------------- the three builders
\* Dialogs made by tuieditor.NewDialog, lazygit.NewDialog and
\* ghdash.NewDialog, closed once or twice between other events.
InitBuilders == \E cfg \in BuilderConfigs : New(cfg)

NextBuilders ==
    \/ Close /\ UNCHANGED phase
    \/ ExitMsg /\ UNCHANGED phase
    \/ OutputMsg /\ UNCHANGED phase
    \/ KeyPressMsg /\ UNCHANGED phase

SpecBuilders == InitBuilders /\ [][NextBuilders]_vars

\* ------------------------------------------- delivery of the process exit
\* The child process of a started terminal exits, by itself or because the
\* caller's context was cancelled; WaitCmd then posts terminal.ExitMsg.
ProcessExit ==
    /\ phase = "idle"
    /\ termStarted
    /\ phase' = "exited"
    /\ UNCHANGED dialogVars

\* The event loop delivers the posted ExitMsg to Update.
DeliverExit ==
    /\ phase = "exited"
    /\ ExitMsg
    /\ phase' = IF "CloseDialogMsg" \in {cmds'[i] : i \in DOMAIN cmds'}
                THEN "closing"
                ELSE "dropped"

\* The host handles CloseDialogMsg: it calls Close() and removes the Dialog.
HostClose ==
    /\ phase = "closing"
    /\ Close
    /\ phase' = "closed"

\* Events reach the Dialog until the host has removed it.
NextLive ==
    \/ phase # "closed" /\ WindowSizeMsg /\ UNCHANGED phase
    \/ phase # "closed" /\ KeyPressMsg /\ UNCHANGED phase
    \/ phase # "closed" /\ OutputMsg /\ UNCHANGED phase
    \/ phase # "closed" /\ PasteMsg /\ UNCHANGED phase
    \/ phase # "closed" /\ MouseMsg /\ UNCHANGED phase
    \/ phase # "closed" /\ Cursor /\ UNCHANGED phase
    \/ ProcessExit
    \/ DeliverExit
    \/ HostClose

\* Posted messages are eventually delivered and handled.
SpecLive ==
    /\ Init
    /\ [][NextLive]_vars
    /\ WF_vars(DeliverExit)
    /\ WF_vars(HostClose)

\* ================================================================== claims
Range(seq) == {seq[i] : i \in DOMAIN seq}

\* A step that processes a window-resize event.
ResizeStep == lastEvent'.type = "resize"

\* The Resize call a resize event makes for the geometry it stored.
ResizeCallFor(c, iw, ih) ==
    c.op = "Resize" /\ c.x = iw /\ c.y = Max(ih - 2, 5)

\* C1: the terminal's Start succeeds at most once; once Started() is true a
\* window-resize event makes exactly one Resize call and no Start.
C1_StartAtMostOnce ==
    /\ [](startCount <= 1)
    /\ [][(termStarted /\ ResizeStep) =>
            /\ Len(calls') = 1
            /\ ResizeCallFor(calls'[1], width', height')
            /\ startCount' = startCount
            /\ termStarted']_vars

C1_Witness ==
    /\ termStarted /\ startCount = 1
    /\ lastEvent.type = "resize"
    /\ Len(calls) = 1 /\ calls[1].op = "Resize" /\ calls[1].ok

\* C2: a window-resize event on an unstarted terminal calls Resize(width,
\* terminalHeight) first and Start second; when both succeed it returns
\* exactly wait-for-exit and refresh-display, and no resize event returns
\* either of them without a Start that succeeded in that event.
C2_ResizeThenStart ==
    [][ResizeStep =>
        /\ ~termStarted =>
            /\ ResizeCallFor(calls'[1], width', height')
            /\ calls'[1].ok => (Len(calls') = 2 /\ calls'[2].op = "Start")
            /\ (Len(calls') = 2 /\ calls'[2].ok) =>
                  (cmds' = <<"WaitCmd", "RefreshCmd">> /\ termStarted')
        /\ (Range(cmds') \cap {"WaitCmd", "RefreshCmd"} # {}) =>
            /\ ~termStarted /\ termStarted'
            /\ Len(calls') = 2 /\ calls'[1].ok
            /\ calls'[2].op = "Start" /\ calls'[2].ok]_vars

C2_Witness ==
    /\ lastEvent.type = "resize"
    /\ termStarted /\ startCount = 1
    /\ Len(calls) = 2 /\ calls[1].op = "Resize" /\ calls[2].op = "Start"
    /\ cmds = <<"WaitCmd", "RefreshCmd">>

\* C3: when Resize fails, or Resize succeeds and Start fails, on an unstarted
\* terminal, the terminal stays unstarted, exactly one error report is
\* returned and nothing else, and after a failed Resize Start is not called.
C3_StartFailure ==
    [][(/\ ResizeStep
        /\ ~termStarted
        /\ \E i \in DOMAIN calls' : ~calls'[i].ok) =>
            /\ ~termStarted'
            /\ startCount' = startCount
            /\ cmds' = <<"ReportError">>
            /\ ~calls'[1].ok => Len(calls') = 1
            /\ \A i \in DOMAIN calls' : ~calls'[i].ok => i = Len(calls')]_vars

C3_Witness ==
    /\ lastEvent.type = "resize"
    /\ ~termStarted
    /\ Len(calls) = 2 /\ calls[1].ok
    /\ calls[2].op = "Start" /\ ~calls[2].ok
    /\ cmds = <<"ReportError">>

\* C4: after an error was reported the Dialog keeps processing events, and a
\* later window-resize event on the still unstarted terminal retries Resize
\* and then Start; if both succeed the terminal is started and wait-for-exit
\* and refresh-display are returned.
C4_RetryAfterFailure ==
    /\ [](errReported =>
            /\ ENABLED WindowSizeMsg
            /\ ENABLED KeyPressMsg
            /\ ENABLED PasteMsg
            /\ ENABLED MouseMsg
            /\ ENABLED OutputMsg
            /\ ENABLED ExitMsg)
    /\ [][(errReported /\ ~termStarted /\ ResizeStep) =>
            /\ ResizeCallFor(calls'[1], width', height')
            /\ calls'[1].ok => (Len(calls') = 2 /\ calls'[2].op = "Start")
            /\ (Len(calls') = 2 /\ calls'[2].ok) =>
                  /\ termStarted'
                  /\ startCount' = 1
                  /\ cmds' = <<"WaitCmd", "RefreshCmd">>]_vars

C4_Witness ==
    /\ errReported
    /\ lastEvent.type = "resize"
    /\ termStarted
    /\ Len(calls) = 2 /\ calls[2].op = "Start" /\ calls[2].ok
    /\ cmds = <<"WaitCmd", "RefreshCmd">>

\* C5: after a window-resize event the inner width is at least 40, the inner
\* height at least 10, and the height passed to the terminal is
\* max(inner height - 2, 5), which is at least 5.
C5_MinimumSizes ==
    resized =>
        /\ width >= 40
        /\ height >= 10
        /\ lastEvent.type = "resize" =>
            /\ calls[1].op = "Resize"
            /\ calls[1].x = width
            /\ calls[1].y = Max(height - 2, 5)
            /\ calls[1].y >= 5

C5_Witness ==
    /\ lastEvent.type = "resize"
    /\ wWidth = 0 /\ wHeight = 0
    /\ width = 40 /\ height = 10
    /\ calls[1].y = 8

\* C6: after a window-resize event of width w the layout is fullscreen
\* exactly when w < 120, whatever the terminal calls of that event returned.
C6_FullscreenBreakpoint ==
    resized => (fullscreen <=> wWidth < 120)

C6_Witness ==
    /\ lastEvent.type = "resize"
    /\ wWidth = 120 /\ ~fullscreen
    /\ cmds = <<"ReportError">>

\* C7 as stated: in windowed mode the outer size (inner + 2) never exceeds
\* (hostWidth - 6, hostHeight - 4).
C7_Original ==
    (resized /\ wWidth >= 120) =>
        /\ width + 2 <= wWidth - 6
        /\ height + 2 <= wHeight - 4

\* C7: in windowed mode the outer width never exceeds hostWidth - 6 and the
\* outer height never exceeds max(hostHeight - 4, 12): the floor of 10 on the
\* inner height wins over the cap when hostHeight < 16.
C7_WindowedCap ==
    (resized /\ wWidth >= 120) =>
        /\ ~fullscreen
        /\ width + 2 <= wWidth - 6
        /\ height + 2 <= Max(wHeight - 4, 12)
        /\ wHeight >= 16 => height + 2 <= wHeight - 4

C7_Witness ==
    /\ resized /\ wWidth >= 120
    /\ wHeight = 15
    /\ height + 2 = 12

\* C8 as stated: host 200x60 gives inner size 168x47 and Position() row 5,
\* col 15.
C8_Original ==
    (resized /\ wWidth = 200 /\ wHeight = 60) =>
        /\ width = 168 /\ height = 47
        /\ Position = <<5, 15>>

\* C8: host 200x60 gives inner size 168x49 (outer 170x51, 85% of the host)
\* and Position() row (60 - 51) / 2 = 4, col (200 - 170) / 2 = 15.
C8_Host200x60 ==
    (resized /\ wWidth = 200 /\ wHeight = 60) =>
        /\ width = 168 /\ height = 49
        /\ Position = <<4, 15>>

C8_Witness ==
    /\ lastEvent.type = "resize"
    /\ wWidth = 200 /\ wHeight = 60
    /\ Position[2] = 15

\* C9: Position() is (0, 0) in fullscreen; otherwise each coordinate is half
\* the space the bordered box leaves in the host (rounded down), or 0 when
\* the box does not fit; both coordinates are never negative.
Centred(pos, host, inner) ==
    IF host >= inner + 2
    THEN 2 * pos <= host - (inner + 2) /\ host - (inner + 2) <= 2 * pos + 1
    ELSE pos = 0

C9_PositionCentred ==
    /\ Position[1] >= 0
    /\ Position[2] >= 0
    /\ fullscreen => Position = <<0, 0>>
    /\ ~fullscreen =>
        /\ Centred(Position[1], wHeight, height)
        /\ Centred(Position[2], wWidth, width)

C9_Witness ==
    /\ resized /\ ~fullscreen
    /\ wHeight < height + 2
    /\ Position[1] = 0 /\ Position[2] > 0

\* C10: with the same Position(), the mouse adjustment followed by the cursor
\* mapping gives the point back, and so does the cursor mapping followed by
\* the mouse adjustment.
RoundTripCoords == {-3, 0, 1, 20, 199}

C10_MouseCursorInverse ==
    LET row == Position[1]
        col == Position[2]
    IN /\ \A x \in RoundTripCoords, y \in RoundTripCoords :
            LET a == adjust(x, y, row, col)
                m == cursorMap(x, y, row, col)
            IN /\ cursorMap(a[1], a[2], row, col) = <<x, y>>
               /\ adjust(m[1], m[2], row, col) = <<x, y>>
       /\ lastEvent.type = "mouse" =>
            cursorMap(calls[1].x, calls[1].y, row, col)
                = <<lastEvent.x, lastEvent.y>>
       /\ (lastEvent.type = "cursor" /\ cursor # <<>>) =>
            adjust(cursor[1], cursor[2], row, col)
                = <<lastEvent.x, lastEvent.y>>

C10_Witness ==
    /\ lastEvent.type = "mouse"
    /\ ~fullscreen /\ Position = <<4, 15>>
    /\ lastEvent.x = 20 /\ lastEvent.y = 20
    /\ calls[1].x = 4 /\ calls[1].y = 13

\* C11: processing the same window-resize event twice in a row leaves host
\* bounds, inner size and layout mode as the first processing left them; when
\* the first processing started the terminal, the second makes exactly one
\* Resize with the same size, no Start, and returns neither wait-for-exit nor
\* refresh-display.
C11_ResizeIdempotent ==
    [][(/\ lastEvent.type = "resize"
        /\ ResizeStep
        /\ lastEvent'.x = lastEvent.x
        /\ lastEvent'.y = lastEvent.y) =>
            /\ UNCHANGED <<wWidth, wHeight, width, height, fullscreen>>
            /\ (Len(calls) = 2 /\ calls[2].op = "Start" /\ calls[2].ok) =>
                /\ Len(calls') = 1
                /\ calls'[1].op = "Resize"
                /\ calls'[1].x = calls[1].x
                /\ calls'[1].y = calls[1].y
                /\ startCount' = startCount
                /\ Range(cmds') \cap {"WaitCmd", "RefreshCmd"} = {}]_vars

C11_Witness ==
    /\ repeated
    /\ lastEvent.type = "resize"
    /\ termStarted /\ startCount = 1
    /\ Len(calls) = 1 /\ calls[1].op = "Resize" /\ calls[1].ok
    /\ termSize = <<width, Max(height - 2, 5)>>
    /\ cmds = <<>>

\* A step that runs Close().
CloseStep == lastEvent'.type = "close" /\ closeCount' = closeCount + 1

\* C12: Close() requests the terminal close first, whatever the state; whether
\* or not that close fails, a supplied callback is invoked after it and its
\* follow-up action is returned, and without a callback nothing is returned.
C12_CloseAlwaysProceeds ==
    [][CloseStep =>
        /\ calls'[1].op = "Close"
        /\ \A i \in DOMAIN calls' : i > 1 => calls'[i].op # "Close"
        /\ hasOnClose =>
            /\ callbackCount' = callbackCount + 1
            /\ dialogKind = "editor" =>
                /\ cmds' = <<"EditorResultMsg">>
                /\ result'.present
                /\ Len(calls') = 3
        /\ ~hasOnClose =>
            /\ callbackCount' = callbackCount
            /\ Len(calls') = 1
            /\ cmds' = <<>>
            /\ result' = NoResult]_vars

C12_Witness ==
    /\ lastEvent.type = "close"
    /\ calls[1].op = "Close" /\ ~calls[1].ok
    /\ ~termStarted
    /\ hasOnClose /\ callbackCount = 1
    /\ cmds = <<"EditorResultMsg">>

\* C13 as stated: the completion callback is invoked exactly once at close,
\* never a second time, over any sequence of events and Close() calls.
C13_Original ==
    /\ callbackCount <= 1
    /\ (hasOnClose /\ closeCount >= 1) => callbackCount = 1

\* C16: a key press makes exactly one call, SendText(text) when the event
\* carries text and SendKey otherwise; a paste makes exactly one SendPaste
\* with the pasted text; nothing else of the Dialog or the terminal changes.
C16_KeyAndPasteForwarding ==
    /\ [](lastEvent.type = "key" =>
            /\ Len(calls) = 1
            /\ lastEvent.text # "" =>
                (calls[1].op = "SendText" /\ calls[1].arg = lastEvent.text)
            /\ lastEvent.text = "" => calls[1].op = "SendKey"
            /\ cmds = <<>>)
    /\ [](lastEvent.type = "paste" =>
            /\ Len(calls) = 1
            /\ calls[1].op = "SendPaste"
            /\ calls[1].arg = lastEvent.text
            /\ cmds = <<>>)
    /\ [][lastEvent'.type \in {"key", "paste"} =>
            UNCHANGED <<wWidth, wHeight, width, height, fullscreen,
                        termStarted, termClosed, termSize, startCount,
                        closeCount, callbackCount>>]_vars

C16_Witness ==
    /\ lastEvent.type = "key" /\ lastEvent.text = "a"
    /\ closeCount > 0 /\ termStarted
    /\ calls = <<Call("SendText", 0, 0, TRUE, "a")>>

\* Position() as the geometry of the last processed window-resize event
\* (host w x h) gives it; (0, 0) before the first one.
PositionFor(w, h) ==
    IF ~resized \/ w < 120
    THEN <<0, 0>>
    ELSE <<Max(Quo(h - (InnerHeight(w, h) + 2), 2), 0),
           Max(Quo(w - (InnerWidth(w) + 2), 2), 0)>>

\* C17: every mouse event, of each of the four variants, makes exactly one
\* SendMouse call with x - col - 1 and y - row - 1 - 2, (row, col) being
\* Position() for the geometry the last processed window-resize event stored.
C17_MouseForwarding ==
    lastEvent.type = "mouse" =>
        LET pos == PositionFor(wWidth, wHeight)
        IN /\ lastEvent.variant \in {"click", "release", "wheel", "motion"}
           /\ Len(calls) = 1
           /\ calls[1].op = "SendMouse"
           /\ calls[1].arg = lastEvent.variant
           /\ calls[1].x = lastEvent.x - pos[2] - 1
           /\ calls[1].y = lastEvent.y - pos[1] - 1 - 2

C17_Witness ==
    /\ lastEvent.type = "mouse" /\ lastEvent.variant = "motion"
    /\ wWidth = 120 /\ wHeight = 16
    /\ lastEvent.x = 20 /\ lastEvent.y = 20
    /\ calls[1].x = 10 /\ calls[1].y = 15

\* C18 as stated: an output event returns exactly one refresh when the
\* terminal is not closed and nothing when it is closed, and once Close() has
\* closed the terminal no operation of the Dialog returns a refresh.
C18_Original ==
    [][/\ lastEvent'.type = "output" =>
            cmds' = IF termClosed' THEN <<>> ELSE <<"RefreshCmd">>
       /\ (closeCount > 0 /\ termClosed) =>
            "RefreshCmd" \notin Range(cmds')]_vars

\* C19: a window-resize event stores host bounds, layout mode and inner size
\* whatever its terminal calls return; when its Resize succeeds the terminal
\* grid is (inner width, max(inner height - 2, 5)), when it fails the grid
\* stays; no other operation changes grid or geometry.
C19_TerminalSizeFollowsGeometry ==
    /\ [](lastEvent.type = "resize" =>
            /\ wWidth = lastEvent.x /\ wHeight = lastEvent.y
            /\ fullscreen = (lastEvent.x < 120)
            /\ width = InnerWidth(lastEvent.x)
            /\ height = InnerHeight(lastEvent.x, lastEvent.y)
            /\ calls[1].ok => termSize = <<width, Max(height - 2, 5)>>)
    /\ [][(ResizeStep /\ ~calls'[1].ok) => termSize' = termSize]_vars
    /\ [][~ResizeStep =>
            UNCHANGED <<termSize, wWidth, wHeight, width, height,
                        fullscreen>>]_vars

C19_Witness ==
    /\ lastEvent.type = "resize"
    /\ termStarted
    /\ ~calls[1].ok
    /\ wWidth = 200 /\ width = 168 /\ height = 49
    /\ termSize = <<100, 8>>

\* C20 as stated: once Close() has run, no operation calls Start or starts
\* the terminal.
C20_Original ==
    [][closeCount > 0 =>
        /\ startCount' = startCount
        /\ termStarted' = termStarted
        /\ \A i \in DOMAIN calls' : calls'[i].op # "Start"]_vars

\* C14: every delivered process-exit event is answered with the close-dialog
\* request; with posted messages delivered fairly, the exit of a started
\* terminal's process leads to that request, and the request to Close()
\* running the terminal close and the completion callback.
C14_ExitLeadsToClose ==
    /\ [][(lastEvent'.type = "exit" /\ phase' # phase) =>
            (cmds' = <<"CloseDialogMsg">> /\ phase' = "closing")]_vars
    /\ (phase = "exited") ~> (phase = "closing")
    /\ (phase = "closing") ~>
            /\ phase = "closed"
            /\ lastEvent.type = "close"
            /\ calls[1].op = "Close"
            /\ closeCount = 1
            /\ hasOnClose => callbackCount = 1

C14_Witness ==
    /\ phase = "closed"
    /\ termStarted
    /\ lastEvent.type = "close"
    /\ hasOnClose /\ callbackCount = 1

\* t is s without its leading and trailing whitespace.
IsTrimOf(t, cs) ==
    \E i \in 1..(Len(cs) + 1), j \in 0..Len(cs) :
        /\ t = SubSeq(cs, i, j)
        /\ \A k \in 1..(i - 1) : cs[k] \in Whitespace
        /\ \A k \in (j + 1)..Len(cs) : cs[k] \in Whitespace
        /\ t # <<>> => (t[1] \notin Whitespace /\ t[Len(t)] \notin Whitespace)

\* C15: Close() of the editor dialog reads the file, removes it, and yields
\* exactly one result event: the error and no content when the read failed,
\* the trimmed content and no error otherwise.  Close() of the lazygit and
\* gh-dash dialogs at most removes the config file and yields no event.
C15_BuilderCallbacks ==
    lastEvent.type = "close" =>
        /\ calls[1].op = "Close"
        /\ dialogKind = "editor" =>
            /\ Len(calls) = 3
            /\ calls[2].op = "ReadFile"
            /\ calls[3].op = "Remove"
            /\ cmds = <<"EditorResultMsg">>
            /\ result.present
            /\ ~calls[2].ok => (result.err /\ result.content = <<>>)
            /\ calls[2].ok =>
                (~result.err /\ IsTrimOf(result.content, fileContent))
        /\ dialogKind \in {"lazygit", "ghdash"} =>
            /\ cmds = <<>>
            /\ result = NoResult
            /\ Len(calls) = IF tempFile = "none" THEN 1 ELSE 2
            /\ Len(calls) = 2 => calls[2].op = "Remove"

C15_Witness ==
    /\ lastEvent.type = "close"
    /\ dialogKind = "editor"
    /\ ~calls[2].ok
    /\ calls[3].op = "Remove"
    /\ cmds = <<"EditorResultMsg">>
    /\ result.err /\ result.content = <<>>

====
